---- MODULE Spec2Model ----
(***************************************************************************)
(* MediaSearcher: a SearchClient resolves an image and a video             *)
(* SearchStrategy for one provider through that provider's factory and     *)
(* dispatches search (blocking) and asearch (asyncio) calls to them.       *)
(*                                                                         *)
(* Python values are modelled as tagged records so that the HTTP           *)
(* libraries' handling of a str, a None and a dict can be told apart:      *)
(*   PyStr(s), PyNone, PyDict(d), PyJson(b).                               *)
(* An object is a record of its attributes; an attribute that was never    *)
(* assigned is a field missing from the record.                            *)
(***************************************************************************)
EXTENDS Integers, Sequences, FiniteSets, TLC

VARIABLES
    client,     \* the SearchClient object, or NoClient before construction
    call,       \* the Client call being executed: mode, content_type, params
    pc,         \* position of the caller: "idle", "running", "done"
    sub,        \* the image and the video sub-search of the call
    queue,      \* asyncio's ready queue (hybrid asearch only)
    outer,      \* the future returned by asyncio.gather
    gets,       \* calls made to the HTTP library in this call, in order
    invoked,    \* Strategy methods entered in this call, in order
    ret,        \* how the Client call ended: returned value or raised error
    now,        \* time elapsed since the Client call began
    earlier     \* how the call before this one ended: "none", "return", "raise"

vars == <<client, call, pc, sub, queue, outer, gets, invoked, ret, now, earlier>>

----------------------------------------------------------------------------
(* Bounds *)

\* longest time one HTTP exchange takes, in clock ticks
MaxLatency == 2

----------------------------------------------------------------------------
(* Python values *)

PyNone == [t |-> "None"]

PyStr(s) == [t |-> "str", s |-> s]

PyDict(d) == [t |-> "dict", d |-> d]

PyJson(b) == [t |-> "json", body |-> b]

\* dict.get(key): the value, or None when the key is missing
DictGet(pd, k) == IF k \in DOMAIN pd.d THEN pd.d[k] ELSE PyNone

----------------------------------------------------------------------------
(* Inputs *)

Providers == {"pixabay", "unsplash", "pexels"}

\* provider tags a caller may pass, one of them unsupported
ProviderTags == Providers \cup {"flickr"}

Keys == {"K"}

\* content-type tags a caller may pass, one of them invalid
ContentTags == {"image", "video", "hybrid", "audio"}

\* search parameter mappings a caller may pass
SearchParams ==
    { PyDict([query |-> PyStr("cat")]),
      PyDict([query |-> PyStr("dog"), per_page |-> PyStr("5")]),
      PyDict([per_page |-> PyStr("5")]) }

\* parsed JSON bodies a provider may answer with
Bodies == {"B1", "B2"}

\* what one HTTP exchange can end in
Responses ==
    { [kind |-> "ok", status |-> 200, body |-> b] : b \in Bodies }
    \cup { [kind |-> "status", status |-> s, body |-> ""] : s \in {401, 404, 500} }
    \cup { [kind |-> "transport", status |-> 0, body |-> ""],
           [kind |-> "timeout", status |-> 0, body |-> ""],
           [kind |-> "malformed", status |-> 200, body |-> ""] }

\* how long one HTTP exchange may take
Latencies == 1..MaxLatency

----------------------------------------------------------------------------
(* Strategies: strategy.py *)

PixabayImageSearchStrategy(api_key) ==
    [cls |-> "PixabayImageSearchStrategy",
     API_URL |-> "https://pixabay.com/api/",
     api_key |-> api_key]

PixabayVideoSearchStrategy(api_key) ==
    [cls |-> "PixabayVideoSearchStrategy",
     API_URL |-> "https://pixabay.com/api/videos/",
     api_key |-> api_key]

UnsplashImageSearchStrategy(api_key) ==
    [cls |-> "UnsplashImageSearchStrategy",
     API_URL |-> "https://api.unsplash.com/search/photos",
     api_key |-> api_key]

UnsplashVideoSearchStrategy(api_key) ==
    [cls |-> "UnsplashVideoSearchStrategy",
     API_URL |-> "https://api.unsplash.com/search/videos",
     api_key |-> api_key]

PexelsImageSearchStrategy(api_key) ==
    [cls |-> "PexelsImageSearchStrategy",
     API_URL |-> "https://api.pexels.com/v1/search",
     api_key |-> api_key]

PexelsVideoSearchStrategy(api_key) ==
    [cls |-> "PexelsVideoSearchStrategy",
     API_URL |-> "https://api.pexels.com/videos/search",
     api_key |-> api_key]

\* A Strategy method either hands one GET to an HTTP library
\* (lib, url, params, headers as passed to the library) or returns at once.
HttpGet(lib, url, params, headers) ==
    [lib |-> lib, url |-> url, params |-> params, headers |-> headers]

Immediate(value) == [lib |-> "none", value |-> value]

NoHeaders == [h \in {} |-> ""]

\* search(self, query): the Client passes its params mapping as `query`
PixabayImageSearchStrategy_search(self, query) ==
    HttpGet("requests", self.API_URL,
            PyDict([key |-> PyStr(self.api_key), q |-> query]), NoHeaders)

\* asearch(self, params): query = params.get('query')
PixabayImageSearchStrategy_asearch(self, params) ==
    LET query == DictGet(params, "query")
    IN  HttpGet("aiohttp", self.API_URL,
                PyDict([key |-> PyStr(self.api_key), q |-> query]), NoHeaders)

PixabayVideoSearchStrategy_asearch(self, params) ==
    LET query == DictGet(params, "query")
    IN  HttpGet("aiohttp", self.API_URL,
                PyDict([key |-> PyStr(self.api_key), q |-> query]), NoHeaders)

PixabayVideoSearchStrategy_search(self, query) ==
    HttpGet("requests", self.API_URL,
            PyDict([key |-> PyStr(self.api_key), q |-> query]), NoHeaders)

UnsplashImageSearchStrategy_asearch(self, params) ==
    HttpGet("aiohttp", self.API_URL, params,
            [Authorization |-> "Client-ID " \o self.api_key])

UnsplashImageSearchStrategy_search(self, params) ==
    HttpGet("requests", self.API_URL, params,
            [Authorization |-> "Client-ID " \o self.api_key])

\* faulty variant: the stub performs the request of the image Strategy
UnsplashVideoSearchStrategy_asearch_Requests(self, params) ==
    HttpGet("aiohttp", self.API_URL, params,
            [Authorization |-> "Client-ID " \o self.api_key])

UnsplashVideoSearchStrategy_asearch(self, params) ==
    Immediate(PyStr("Unsplash video search not implemented yet."))

UnsplashVideoSearchStrategy_search(self, params) ==
    Immediate(PyStr("Unsplash video search not implemented yet."))

PexelsImageSearchStrategy_asearch(self, params) ==
    HttpGet("aiohttp", self.API_URL, params, [Authorization |-> self.api_key])

PexelsImageSearchStrategy_search(self, params) ==
    HttpGet("requests", self.API_URL, params, [Authorization |-> self.api_key])

PexelsVideoSearchStrategy_asearch(self, params) ==
    HttpGet("aiohttp", self.API_URL, params, [Authorization |-> self.api_key])

PexelsVideoSearchStrategy_search(self, params) ==
    HttpGet("requests", self.API_URL, params, [Authorization |-> self.api_key])

\* method lookup on the object's class
Strategy_search(self, params) ==
    CASE self.cls = "PixabayImageSearchStrategy" -> PixabayImageSearchStrategy_search(self, params)
      [] self.cls = "PixabayVideoSearchStrategy" -> PixabayVideoSearchStrategy_search(self, params)
      [] self.cls = "UnsplashImageSearchStrategy" -> UnsplashImageSearchStrategy_search(self, params)
      [] self.cls = "UnsplashVideoSearchStrategy" -> UnsplashVideoSearchStrategy_search(self, params)
      [] self.cls = "PexelsImageSearchStrategy" -> PexelsImageSearchStrategy_search(self, params)
      [] self.cls = "PexelsVideoSearchStrategy" -> PexelsVideoSearchStrategy_search(self, params)

Strategy_asearch(self, params) ==
    CASE self.cls = "PixabayImageSearchStrategy" -> PixabayImageSearchStrategy_asearch(self, params)
      [] self.cls = "PixabayVideoSearchStrategy" -> PixabayVideoSearchStrategy_asearch(self, params)
      [] self.cls = "UnsplashImageSearchStrategy" -> UnsplashImageSearchStrategy_asearch(self, params)
      [] self.cls = "UnsplashVideoSearchStrategy" -> UnsplashVideoSearchStrategy_asearch(self, params)
      [] self.cls = "PexelsImageSearchStrategy" -> PexelsImageSearchStrategy_asearch(self, params)
      [] self.cls = "PexelsVideoSearchStrategy" -> PexelsVideoSearchStrategy_asearch(self, params)

----------------------------------------------------------------------------
(* The HTTP libraries, as the strategies use them *)

\* requests.get(url, params=...): a str value is sent as it is, a None value
\* is left out, and any other iterable value is iterated, which for a dict
\* yields its keys.
requests_encode(params) ==
    UNION { IF params.d[k].t = "str" THEN { <<k, params.d[k].s>> }
            ELSE IF params.d[k].t = "dict"
                 THEN { <<k, kk>> : kk \in DOMAIN params.d[k].d }
                 ELSE {}
            : k \in DOMAIN params.d }

\* session.get(url, params=...): a value that is not a str (or a number) makes
\* the URL builder raise TypeError before anything is sent.
aiohttp_valid(params) == \A k \in DOMAIN params.d : params.d[k].t = "str"

aiohttp_encode(params) ==
    { <<k, params.d[k].s>> : k \in { kk \in DOMAIN params.d : params.d[kk].t = "str" } }

\* The GET a Strategy hands to its library, as the provider would see it.
\* valid = FALSE: the library refused the arguments and sent nothing.
Wire(g, s) ==
    [slot |-> s,
     lib |-> g.lib,
     url |-> g.url,
     query |-> IF g.lib = "requests" THEN requests_encode(g.params)
               ELSE aiohttp_encode(g.params),
     headers |-> { <<h, g.headers[h]>> : h \in DOMAIN g.headers },
     valid |-> (g.lib = "requests" \/ aiohttp_valid(g.params))]

\* the error raised inside the try block: raise_for_status() on a non-2xx
\* status, the library's transport and timeout errors, json() on a bad body
Raised(lib, kind) ==
    CASE kind = "ok" -> ""
      [] kind = "invalid_params" -> "TypeError"
      [] kind = "status" ->
            IF lib = "requests" THEN "requests.HTTPError" ELSE "aiohttp.ClientResponseError"
      [] kind = "transport" ->
            IF lib = "requests" THEN "requests.ConnectionError" ELSE "aiohttp.ClientConnectionError"
      [] kind = "timeout" ->
            IF lib = "requests" THEN "requests.Timeout" ELSE "asyncio.TimeoutError"
      [] kind = "malformed" ->
            IF lib = "requests" THEN "JSONDecodeError" ELSE "aiohttp.ContentTypeError"

\* subclasses of aiohttp.ClientError
ClientErrors ==
    {"aiohttp.ClientResponseError", "aiohttp.ClientConnectionError", "aiohttp.ContentTypeError"}

\* subclasses of Exception among the errors above (all of them)
Exceptions ==
    ClientErrors \cup {"TypeError", "requests.HTTPError", "requests.ConnectionError",
                       "requests.Timeout", "asyncio.TimeoutError", "JSONDecodeError"}

Return(value) == [kind |-> "return", value |-> value]

Raise(exc) == [kind |-> "raise", exc |-> exc]

NoOutcome == [kind |-> "none"]

\* try: get; raise_for_status; return json
\* except requests.HTTPError: return None
\* except Exception: return None
requests_try(kind, body) ==
    LET e == Raised("requests", kind)
    IN  IF e = "" THEN Return(PyJson(body))
        ELSE IF e = "requests.HTTPError" THEN Return(PyNone)
        ELSE IF e \in Exceptions THEN Return(PyNone)
        ELSE Raise(e)

\* faulty variant: the handler for Exception is missing
aiohttp_try_ClientErrorOnly(kind, body) ==
    LET e == Raised("aiohttp", kind)
    IN  IF e = "" THEN Return(PyJson(body))
        ELSE IF e \in ClientErrors THEN Return(PyNone)
        ELSE Raise(e)

\* try: session.get; raise_for_status; return await json
\* except aiohttp.ClientError: return None
\* except Exception: return None
aiohttp_try(kind, body) ==
    LET e == Raised("aiohttp", kind)
    IN  IF e = "" THEN Return(PyJson(body))
        ELSE IF e \in ClientErrors THEN Return(PyNone)
        ELSE IF e \in Exceptions THEN Return(PyNone)
        ELSE Raise(e)

SearchTry(lib, kind, body) ==
    IF lib = "requests" THEN requests_try(kind, body) ELSE aiohttp_try(kind, body)

----------------------------------------------------------------------------
(* Factories: strategy_factory.py *)

PixabayFactory_get_search_strategy(api_key, content_type) ==
    IF content_type = "image" THEN PixabayImageSearchStrategy(api_key)
    ELSE IF content_type = "video" THEN PixabayVideoSearchStrategy(api_key)
    ELSE Raise("ValueError")

UnsplashFactory_get_search_strategy(api_key, content_type) ==
    IF content_type = "image" THEN UnsplashImageSearchStrategy(api_key)
    ELSE IF content_type = "video" THEN UnsplashVideoSearchStrategy(api_key)
    ELSE Raise("ValueError")

\* faulty variant: the video branch builds the image Strategy
PexelsFactory_get_search_strategy_ImageForVideo(api_key, content_type) ==
    IF content_type = "image" THEN PexelsImageSearchStrategy(api_key)
    ELSE IF content_type = "video" THEN PexelsImageSearchStrategy(api_key)
    ELSE Raise("ValueError")

PexelsFactory_get_search_strategy(api_key, content_type) ==
    IF content_type = "image" THEN PexelsImageSearchStrategy(api_key)
    ELSE IF content_type = "video" THEN PexelsVideoSearchStrategy(api_key)
    ELSE Raise("ValueError")

----------------------------------------------------------------------------
(* Client: client.py *)

NoClient == [none |-> TRUE]

\* SearchClient.__init__: there is no else branch, so an unsupported provider
\* leaves the two searcher attributes unassigned
SearchClient(params) ==
    LET provider == params.provider
        api_key == params.key
    IN  IF provider = "pixabay" THEN
            [provider |-> provider, api_key |-> api_key,
             image_searcher |-> PixabayFactory_get_search_strategy(api_key, "image"),
             video_searcher |-> PixabayFactory_get_search_strategy(api_key, "video")]
        ELSE IF provider = "unsplash" THEN
            [provider |-> provider, api_key |-> api_key,
             image_searcher |-> UnsplashFactory_get_search_strategy(api_key, "image"),
             video_searcher |-> UnsplashFactory_get_search_strategy(api_key, "video")]
        ELSE IF provider = "pexels" THEN
            [provider |-> provider, api_key |-> api_key,
             image_searcher |-> PexelsFactory_get_search_strategy(api_key, "image"),
             video_searcher |-> PexelsFactory_get_search_strategy(api_key, "video")]
        ELSE [provider |-> provider, api_key |-> api_key]

----------------------------------------------------------------------------
(* One sub-search: the call of one Strategy method *)

Slots == {"image", "video"}

NoResponse == [kind |-> "none"]

\* st: idle, ready (task created), inflight (GET sent, response awaited),
\* woken (response there, task not yet resumed), done; lat: how long the
\* exchange takes (0: none made); due: when the response of the exchange in
\* flight arrives
IdleSlot ==
    [st |-> "idle", lib |-> "none", lat |-> 0, due |-> 0,
     resp |-> NoResponse, out |-> NoOutcome]

DoneSlot(lib, lat, resp, out) ==
    [st |-> "done", lib |-> lib, lat |-> lat, due |-> 0, resp |-> resp, out |-> out]

InflightSlot(lib, lat, due) ==
    [st |-> "inflight", lib |-> lib, lat |-> lat, due |-> due,
     resp |-> NoResponse, out |-> NoOutcome]

InvalidParams == [kind |-> "invalid_params", status |-> 0, body |-> ""]

\* the attribute of the Client that holds the Strategy of a content type
SearcherAttr(content_type) ==
    IF content_type = "image" THEN "image_searcher" ELSE "video_searcher"

\* self._image_searcher.search(params) / await self._image_searcher.asearch(params)
\* (and the same for video), run up to the point where the GET is in flight:
\* the attribute lookup fails on a Client without strategies, the stub returns
\* at once, a GET the library refuses ends in the method's except branch.
StartSub(cl, mode, s, params, t, lat) ==
    IF SearcherAttr(s) \notin DOMAIN cl
    THEN [slot |-> DoneSlot("none", 0, NoResponse, Raise("AttributeError")),
          gets |-> <<>>, invoked |-> <<>>]
    ELSE
        LET self == cl[SearcherAttr(s)]
            g == IF mode = "sync" THEN Strategy_search(self, params)
                 ELSE Strategy_asearch(self, params)
            inv == << [cls |-> self.cls, slot |-> s,
                       method |-> IF mode = "sync" THEN "search" ELSE "asearch"] >>
        IN  IF g.lib = "none"
            THEN [slot |-> DoneSlot("none", 0, NoResponse, Return(g.value)),
                  gets |-> <<>>, invoked |-> inv]
            ELSE IF Wire(g, s).valid
            THEN [slot |-> InflightSlot(g.lib, lat, t + lat),
                  gets |-> << Wire(g, s) >>, invoked |-> inv]
            ELSE [slot |-> DoneSlot(g.lib, 0, InvalidParams,
                                    SearchTry(g.lib, "invalid_params", "")),
                  gets |-> << Wire(g, s) >>, invoked |-> inv]

\* faulty variant: the GET of a sub-search is made twice
Started_GetTwice(cl, c, s, st) ==
    LET r == StartSub(cl, c.mode, s, c.params, st.now, st.lat)
    IN  [sub |-> [st.sub EXCEPT ![s] = r.slot],
         gets |-> st.gets \o r.gets \o r.gets,
         invoked |-> st.invoked \o r.invoked,
         now |-> st.now,
         lat |-> st.lat]

\* the state a call works on (lat: how long the next exchange will take), and
\* a sub-search started in it
Started(cl, c, s, st) ==
    LET r == StartSub(cl, c.mode, s, c.params, st.now, st.lat)
    IN  [sub |-> [st.sub EXCEPT ![s] = r.slot],
         gets |-> st.gets \o r.gets,
         invoked |-> st.invoked \o r.invoked,
         now |-> st.now,
         lat |-> st.lat]

Running(st) ==
    [sub |-> st.sub, gets |-> st.gets, invoked |-> st.invoked,
     pc |-> "running", ret |-> NoOutcome]

Ended(st, out) ==
    [sub |-> st.sub, gets |-> st.gets, invoked |-> st.invoked,
     pc |-> "done", ret |-> out]

\* faulty variant: a failed sub-search fails the combined result
HybridResult_NoneIfAnyFails(images, videos) ==
    IF images = PyNone \/ videos = PyNone THEN Return(PyNone)
    ELSE Return([images |-> images, videos |-> videos])

\* return {'images': images, 'videos': videos}
HybridResult(images, videos) == Return([images |-> images, videos |-> videos])

\* blocking hybrid search once the image sub-search has returned:
\* videos = self.search(params, 'video'), then the combined result
HybridVideo(st) ==
    IF st.sub["video"].st = "inflight" THEN Running(st)
    ELSE IF st.sub["video"].out.kind = "raise" THEN Ended(st, st.sub["video"].out)
    ELSE Ended(st, HybridResult(st.sub["image"].out.value, st.sub["video"].out.value))

\* A call that runs in the caller's own flow of control (search, and asearch
\* for image or video), continued until it blocks on a response or ends.
Continue(cl, c, st) ==
    IF \E s \in Slots : st.sub[s].st = "inflight" THEN Running(st)
    ELSE IF c.content_type # "hybrid" THEN Ended(st, st.sub[c.content_type].out)
    ELSE IF st.sub["image"].out.kind = "raise" THEN Ended(st, st.sub["image"].out)
    ELSE IF st.sub["video"].st = "idle" THEN HybridVideo(Started(cl, c, "video", st))
    ELSE HybridVideo(st)

\* faulty variant: the last branch is taken for every other tag
Dispatch_VideoByDefault(cl, c, lat) ==
    LET st0 == [sub |-> [s \in Slots |-> IdleSlot], gets |-> <<>>, invoked |-> <<>>,
                now |-> 0, lat |-> lat]
    IN  IF c.content_type = "image" THEN Continue(cl, c, Started(cl, c, "image", st0))
        ELSE IF c.content_type = "hybrid" THEN Continue(cl, c, Started(cl, c, "image", st0))
        ELSE Continue(cl, [c EXCEPT !.content_type = "video"], Started(cl, c, "video", st0))

\* faulty variant: blocking hybrid search sends both GETs before it waits
Dispatch_HybridBothAtOnce(cl, c, lat) ==
    LET st0 == [sub |-> [s \in Slots |-> IdleSlot], gets |-> <<>>, invoked |-> <<>>,
                now |-> 0, lat |-> lat]
    IN  IF c.content_type = "image" THEN Continue(cl, c, Started(cl, c, "image", st0))
        ELSE IF c.content_type = "video" THEN Continue(cl, c, Started(cl, c, "video", st0))
        ELSE IF c.content_type = "hybrid"
        THEN Continue(cl, c, Started(cl, c, "video", Started(cl, c, "image", st0)))
        ELSE Ended(st0, Raise("ValueError"))

\* the dispatch of search / asearch on content_type, up to the first blocking
\* point; 'hybrid' is handled here for search only
Dispatch(cl, c, lat) ==
    LET st0 == [sub |-> [s \in Slots |-> IdleSlot], gets |-> <<>>, invoked |-> <<>>,
                now |-> 0, lat |-> lat]
    IN  IF c.content_type = "image" THEN Continue(cl, c, Started(cl, c, "image", st0))
        ELSE IF c.content_type = "video" THEN Continue(cl, c, Started(cl, c, "video", st0))
        ELSE IF c.content_type = "hybrid" THEN Continue(cl, c, Started(cl, c, "image", st0))
        ELSE Ended(st0, Raise("ValueError"))

----------------------------------------------------------------------------
(* asyncio, as hybrid asearch uses it *)

NoFuture == [state |-> "none"]

PendingFuture == [state |-> "pending", nfinished |-> 0]

TaskItem(s) == [item |-> "task", slot |-> s]

CallbackItem(s) == [item |-> "callback", slot |-> s]

OuterItem == [item |-> "outer", slot |-> "none"]

\* faulty variant: the outer future is resolved by the first task that is done
\* (the other one counts as None)
GatherDoneCallback_FirstCompleted(fut, subs, s) ==
    IF fut.state # "pending" THEN fut
    ELSE IF subs[s].out.kind = "raise"
    THEN [state |-> "exception", exc |-> subs[s].out.exc]
    ELSE [state |-> "result",
          results |-> << IF subs["image"].st = "done" THEN subs["image"].out.value ELSE PyNone,
                         IF subs["video"].st = "done" THEN subs["video"].out.value ELSE PyNone >>]

\* asyncio.gather(image_task, video_task), return_exceptions left False: the
\* callback run when task s is done. A raised error is set on the outer future
\* at once; otherwise the outer future gets the list of both results when the
\* last of the two tasks is done.
GatherDoneCallback(fut, subs, s) ==
    IF fut.state # "pending" THEN fut
    ELSE IF subs[s].out.kind = "raise"
    THEN [state |-> "exception", exc |-> subs[s].out.exc]
    ELSE IF fut.nfinished + 1 = Cardinality(Slots)
    THEN [state |-> "result",
          results |-> << subs["image"].out.value, subs["video"].out.value >>]
    ELSE [state |-> "pending", nfinished |-> fut.nfinished + 1]

\* images, videos = await asyncio.gather(...); return {'images': ..., 'videos': ...}
AwaitGather(fut) ==
    IF fut.state = "exception" THEN Raise(fut.exc)
    ELSE HybridResult(fut.results[1], fut.results[2])

----------------------------------------------------------------------------
(* State machine *)

NoCall == [mode |-> "none", content_type |-> "none", params |-> PyNone]

IsHybridAsearch == call.mode = "async" /\ call.content_type = "hybrid"

Init ==
    /\ client = NoClient
    /\ call = NoCall
    /\ pc = "idle"
    /\ sub = [s \in Slots |-> IdleSlot]
    /\ queue = <<>>
    /\ outer = NoFuture
    /\ gets = <<>>
    /\ invoked = <<>>
    /\ ret = NoOutcome
    /\ now = 0
    /\ earlier = "none"

\* SearchClient({'provider': provider, 'key': key})
Construct(provider, key) ==
    /\ client = NoClient
    /\ client' = SearchClient([provider |-> provider, key |-> key])
    /\ UNCHANGED <<call, pc, sub, queue, outer, gets, invoked, ret, now, earlier>>

CanCall ==
    /\ client # NoClient
    /\ pc \in {"idle", "done"}

\* the effects of a call that runs in the caller's flow of control
Apply(r) ==
    /\ sub' = r.sub
    /\ gets' = r.gets
    /\ invoked' = r.invoked
    /\ pc' = r.pc
    /\ ret' = r.ret

\* faulty variant: the call rebinds the Client's image Strategy to its video
\* Strategy
Search_RebindsSearcher(params, content_type, lat) ==
    /\ CanCall
    /\ call' = [mode |-> "sync", content_type |-> content_type, params |-> params]
    /\ now' = 0
    /\ earlier' = ret.kind
    /\ LET r == Dispatch(client, call', lat)
       IN  /\ sub' = r.sub
           /\ gets' = r.gets
           /\ invoked' = r.invoked
           /\ pc' = r.pc
           /\ ret' = r.ret
    /\ queue' = <<>>
    /\ outer' = NoFuture
    /\ client' = IF "image_searcher" \in DOMAIN client
                 THEN [client EXCEPT !.image_searcher = client.video_searcher]
                 ELSE client

\* client.search(params, content_type), until it blocks on a response or ends
Search(params, content_type, lat) ==
    /\ CanCall
    /\ call' = [mode |-> "sync", content_type |-> content_type, params |-> params]
    /\ now' = 0
    /\ earlier' = ret.kind
    /\ LET r == Dispatch(client, call', lat)
       IN  /\ sub' = r.sub
           /\ gets' = r.gets
           /\ invoked' = r.invoked
           /\ pc' = r.pc
           /\ ret' = r.ret
    /\ queue' = <<>>
    /\ outer' = NoFuture
    /\ UNCHANGED client

\* await client.asearch(params, content_type), until it suspends or ends;
\* for 'hybrid' the two tasks are created and the caller awaits gather
Asearch(params, content_type, lat) ==
    /\ CanCall
    /\ call' = [mode |-> "async", content_type |-> content_type, params |-> params]
    /\ now' = 0
    /\ earlier' = ret.kind
    /\ IF content_type = "hybrid"
       THEN /\ sub' = [s \in Slots |-> [IdleSlot EXCEPT !.st = "ready"]]
            /\ queue' = << TaskItem("image"), TaskItem("video") >>
            /\ outer' = PendingFuture
            /\ gets' = <<>>
            /\ invoked' = <<>>
            /\ pc' = "running"
            /\ ret' = NoOutcome
       ELSE /\ LET r == Dispatch(client, call', lat)
               IN  /\ sub' = r.sub
                   /\ gets' = r.gets
                   /\ invoked' = r.invoked
                   /\ pc' = r.pc
                   /\ ret' = r.ret
            /\ queue' = <<>>
            /\ outer' = NoFuture
    /\ UNCHANGED client

\* The exchange of sub-search s ends with r, in a call that runs in the
\* caller's flow of control: the Strategy method returns through its try
\* block and the Client call goes on from there (an exchange it starts then
\* takes lat).
Respond(s, r, lat) ==
    /\ pc = "running"
    /\ ~IsHybridAsearch
    /\ sub[s].st = "inflight"
    /\ sub[s].due = now
    /\ LET out == SearchTry(sub[s].lib, r.kind, r.body)
           st == [sub |-> [sub EXCEPT ![s] = DoneSlot(sub[s].lib, sub[s].lat, r, out)],
                  gets |-> gets, invoked |-> invoked, now |-> now, lat |-> lat]
       IN  Apply(Continue(client, call, st))
    /\ UNCHANGED <<client, call, queue, outer, now, earlier>>

\* The exchange of task s ends with r: the task is made ready again.
TaskRespond(s, r) ==
    /\ IsHybridAsearch
    /\ sub[s].st = "inflight"
    /\ sub[s].due = now
    /\ sub' = [sub EXCEPT ![s].st = "woken", ![s].resp = r]
    /\ queue' = Append(queue, TaskItem(s))
    /\ UNCHANGED <<client, call, pc, outer, gets, invoked, ret, now, earlier>>

\* The event loop runs the task at the head of the ready queue until it
\* suspends or ends: self.asearch(params, 'image' / 'video'); an exchange it
\* starts takes lat.
RunTask(lat) ==
    /\ IsHybridAsearch
    /\ queue # <<>>
    /\ Head(queue).item = "task"
    /\ LET s == Head(queue).slot
       IN  IF sub[s].st = "ready"
           THEN LET r == StartSub(client, "async", s, call.params, now, lat)
                IN  /\ sub' = [sub EXCEPT ![s] = r.slot]
                    /\ gets' = gets \o r.gets
                    /\ invoked' = invoked \o r.invoked
                    /\ queue' = IF r.slot.st = "done"
                                THEN Append(Tail(queue), CallbackItem(s))
                                ELSE Tail(queue)
           ELSE /\ sub[s].st = "woken"
                /\ sub' = [sub EXCEPT ![s] =
                             DoneSlot(sub[s].lib, sub[s].lat, sub[s].resp,
                                      SearchTry(sub[s].lib, sub[s].resp.kind, sub[s].resp.body))]
                /\ queue' = Append(Tail(queue), CallbackItem(s))
                /\ UNCHANGED <<gets, invoked>>
    /\ UNCHANGED <<client, call, pc, outer, ret, now, earlier>>

\* The event loop runs gather's callback for a task that is done.
RunCallback ==
    /\ IsHybridAsearch
    /\ queue # <<>>
    /\ Head(queue).item = "callback"
    /\ outer' = GatherDoneCallback(outer, sub, Head(queue).slot)
    /\ queue' = IF outer.state = "pending" /\ outer'.state # "pending"
                THEN Append(Tail(queue), OuterItem)
                ELSE Tail(queue)
    /\ UNCHANGED <<client, call, pc, sub, gets, invoked, ret, now, earlier>>

\* The event loop resumes the caller, whose await of gather is over.
RunOuter ==
    /\ IsHybridAsearch
    /\ queue # <<>>
    /\ Head(queue).item = "outer"
    /\ pc = "running"
    /\ ret' = AwaitGather(outer)
    /\ pc' = "done"
    /\ queue' = Tail(queue)
    /\ UNCHANGED <<client, call, sub, outer, gets, invoked, now, earlier>>

\* Time passes while the caller (or the event loop) has nothing to run and
\* no awaited response has arrived yet.
Tick ==
    /\ pc = "running"
    /\ queue = <<>>
    /\ \E s \in Slots : sub[s].st = "inflight"
    /\ \A s \in Slots : sub[s].st = "inflight" => now < sub[s].due
    /\ now' = now + 1
    /\ UNCHANGED <<client, call, pc, sub, queue, outer, gets, invoked, ret, earlier>>

Next ==
    \/ \E p \in ProviderTags, k \in Keys : Construct(p, k)
    \/ \E ps \in SearchParams, ct \in ContentTags, lat \in Latencies : Search(ps, ct, lat)
    \/ \E ps \in SearchParams, ct \in ContentTags, lat \in Latencies : Asearch(ps, ct, lat)
    \/ \E s \in Slots, r \in Responses, lat \in Latencies : Respond(s, r, lat)
    \/ \E s \in Slots, r \in Responses : TaskRespond(s, r)
    \/ \E lat \in Latencies : RunTask(lat)
    \/ RunCallback
    \/ RunOuter
    \/ Tick

Spec == Init /\ [][Next]_vars

----------------------------------------------------------------------------
(* Properties *)

Supported == client # NoClient /\ client.provider \in Providers

Called == pc # "idle"

SlotsDone == \A s \in Slots : sub[s].st = "done"

\* the endpoint table of the provider documentation, "stub" where there is none
Endpoint(provider, content_type) ==
    CASE provider = "pixabay" /\ content_type = "image" -> "https://pixabay.com/api/"
      [] provider = "pixabay" /\ content_type = "video" -> "https://pixabay.com/api/videos/"
      [] provider = "unsplash" /\ content_type = "image" -> "https://api.unsplash.com/search/photos"
      [] provider = "unsplash" /\ content_type = "video" -> "stub"
      [] provider = "pexels" /\ content_type = "image" -> "https://api.pexels.com/v1/search"
      [] provider = "pexels" /\ content_type = "video" -> "https://api.pexels.com/videos/search"

\* the Strategy class of a (provider, content type) pair
StrategyClass(provider, content_type) ==
    CASE provider = "pixabay" /\ content_type = "image" -> "PixabayImageSearchStrategy"
      [] provider = "pixabay" /\ content_type = "video" -> "PixabayVideoSearchStrategy"
      [] provider = "unsplash" /\ content_type = "image" -> "UnsplashImageSearchStrategy"
      [] provider = "unsplash" /\ content_type = "video" -> "UnsplashVideoSearchStrategy"
      [] provider = "pexels" /\ content_type = "image" -> "PexelsImageSearchStrategy"
      [] provider = "pexels" /\ content_type = "video" -> "PexelsVideoSearchStrategy"

\* C1: on a Client of a supported provider P, a search or asearch call for
\* content type T in {image, video} enters exactly one Strategy method, the
\* search (resp. asearch) of the Strategy of the pair (P, T); every GET of the
\* call goes to the endpoint the table gives for (P, T), and the stub of
\* unsplash/video makes none.
C1_Dispatch ==
    (Supported /\ Called /\ call.content_type \in {"image", "video"}) =>
        LET P == client.provider
            T == call.content_type
        IN  /\ Len(invoked) = 1
            /\ invoked[1].cls = StrategyClass(P, T)
            /\ invoked[1].slot = T
            /\ invoked[1].method = (IF call.mode = "sync" THEN "search" ELSE "asearch")
            /\ client[SearcherAttr(T)].cls = StrategyClass(P, T)
            /\ Endpoint(P, T) # "stub" =>
                  /\ client[SearcherAttr(T)].API_URL = Endpoint(P, T)
                  /\ Len(gets) = 1
                  /\ gets[1].url = Endpoint(P, T)
            /\ Endpoint(P, T) = "stub" => gets = <<>>

\* a pexels Client whose asearch for video has sent its GET to the video endpoint
C1_Witness ==
    /\ Supported
    /\ client.provider = "pexels"
    /\ call.mode = "async"
    /\ call.content_type = "video"
    /\ Len(gets) = 1
    /\ gets[1].url = "https://api.pexels.com/videos/search"
    /\ sub["video"].st = "inflight"

C3_HybridRecord ==
    (Supported /\ pc = "done" /\ call.content_type = "hybrid") =>
        /\ ret.kind = "return"
        /\ SlotsDone
        /\ \A s \in Slots : sub[s].out.kind = "return"
        /\ DOMAIN ret.value = {"images", "videos"}
        /\ ret.value.images = sub["image"].out.value
        /\ ret.value.videos = sub["video"].out.value

\* a hybrid asearch whose image sub-search failed and whose video sub-search
\* succeeded
C3_Witness ==
    /\ Supported
    /\ pc = "done"
    /\ IsHybridAsearch
    /\ sub["image"].resp.kind = "status"
    /\ sub["video"].resp.kind = "ok"
    /\ ret = Return([images |-> PyNone, videos |-> PyJson(sub["video"].resp.body)])

\* C4: a search or asearch with a content-type tag outside image, video,
\* hybrid has ended with ValueError, with no GET made and no Strategy method
\* entered.
C4_InvalidContentType ==
    (client # NoClient /\ Called /\ call.content_type \notin {"image", "video", "hybrid"}) =>
        /\ pc = "done"
        /\ ret = Raise("ValueError")
        /\ gets = <<>>
        /\ invoked = <<>>
        /\ \A s \in Slots : sub[s].st = "idle"

\* asearch(params, "audio") on a supported Client has raised ValueError
C4_Witness ==
    /\ Supported
    /\ call.mode = "async"
    /\ call.content_type = "audio"
    /\ ret = Raise("ValueError")

\* C5: in hybrid asearch the future of gather is resolved, and the call ends,
\* only when both sub-searches are done; a sub-search that is done never
\* takes the other one out of flight.
C5_Join ==
    IsHybridAsearch =>
        /\ outer.state # "pending" => SlotsDone
        /\ pc = "done" => (SlotsDone /\ outer.state # "pending")
        /\ pc = "running" => \A s \in Slots : sub[s].st \in {"ready", "inflight", "woken", "done"}

\* the image sub-search has failed while the video exchange is still in flight
C5_Witness ==
    /\ IsHybridAsearch
    /\ pc = "running"
    /\ sub["image"].st = "done"
    /\ sub["image"].resp.kind = "transport"
    /\ sub["image"].out = Return(PyNone)
    /\ sub["video"].st = "inflight"

Max(a, b) == IF a >= b THEN a ELSE b

\* C6: in blocking search at most one exchange is in flight and the video
\* sub-search starts only when the image sub-search is done, so a hybrid
\* search takes the sum of the two exchanges; a hybrid asearch takes the
\* longer of the two.
C6_Ordering ==
    /\ call.mode = "sync" =>
          /\ Cardinality({s \in Slots : sub[s].st = "inflight"}) <= 1
          /\ sub["video"].st # "idle" /\ call.content_type = "hybrid" => sub["image"].st = "done"
    /\ (call.mode = "sync" /\ call.content_type = "hybrid" /\ pc = "done") =>
          now = sub["image"].lat + sub["video"].lat
    /\ (IsHybridAsearch /\ pc = "done") =>
          now = Max(sub["image"].lat, sub["video"].lat)

\* hybrid asearch with both GETs in flight at the same time
C6_Witness ==
    /\ IsHybridAsearch
    /\ Len(gets) = 2
    /\ \A s \in Slots : sub[s].st = "inflight"

StubClass == "UnsplashVideoSearchStrategy"

\* the Strategy methods entered so far that are not the stub's
NonStubCalls == { i \in DOMAIN invoked : invoked[i].cls # StubClass }

\* C7: construction makes no GET; every entered Strategy method other than the
\* stub's has made exactly one GET, whatever its exchange ended in, and the
\* stub's none; so an image or video call makes at most one GET and a hybrid
\* call at most two.
C7_OneGetPerCall ==
    /\ ~Called => gets = <<>>
    /\ Len(gets) = Cardinality(NonStubCalls)
    /\ \A s \in Slots :
          Cardinality({ i \in DOMAIN gets : gets[i].slot = s })
              = Cardinality({ i \in NonStubCalls : invoked[i].slot = s })
    /\ \A s \in Slots : Cardinality({ i \in DOMAIN invoked : invoked[i].slot = s }) <= 1
    /\ call.content_type \in {"image", "video"} => Len(gets) <= 1
    /\ call.content_type = "hybrid" => Len(gets) <= 2
    /\ (Supported /\ Called /\ call.content_type \in {"image", "video"}
          /\ client[SearcherAttr(call.content_type)].cls # StubClass) => Len(gets) = 1

\* a blocking hybrid search both of whose exchanges failed has ended with
\* two GETs made
C7_Witness ==
    /\ Supported
    /\ call.mode = "sync"
    /\ call.content_type = "hybrid"
    /\ pc = "done"
    /\ sub["image"].resp.kind = "status"
    /\ sub["video"].resp.kind = "transport"
    /\ Len(gets) = 2

StubText == PyStr("Unsplash video search not implemented yet.")

\* C8: on an unsplash Client the video sub-search, blocking or suspending,
\* returns the fixed text and makes no GET; a video call returns that text
\* and a hybrid call has it as videos.
C8_UnsplashVideoStub ==
    (Supported /\ client.provider = "unsplash") =>
        /\ \A i \in DOMAIN gets : gets[i].slot # "video"
        /\ sub["video"].st \in {"idle", "ready", "done"}
        /\ sub["video"].st = "done" => sub["video"].out = Return(StubText)
        /\ (pc = "done" /\ call.content_type = "video") => ret = Return(StubText)
        /\ (pc = "done" /\ call.content_type = "hybrid") =>
              (ret.kind = "return" /\ ret.value.videos = StubText)

\* a hybrid asearch on an unsplash Client whose image sub-search failed
C8_Witness ==
    /\ Supported
    /\ client.provider = "unsplash"
    /\ IsHybridAsearch
    /\ pc = "done"
    /\ ret = Return([images |-> PyNone, videos |-> StubText])

\* the caller's search parameters as name/value pairs
CallerPairs == { <<k, call.params.d[k].s>> : k \in DOMAIN call.params.d }

\* C9: every GET carries the caller's search parameters and the provider's
\* credential shape: pexels the raw key as Authorization header, unsplash
\* "Client-ID <key>", both with the caller's parameters as the query string;
\* pixabay the key as query parameter; in every case the caller's query text
\* is among the values sent; a 200 response makes the sub-search return the
\* parsed body.
C9_RequestShape ==
    /\ \A i \in DOMAIN gets :
          LET g == gets[i]
              P == client.provider
          IN  /\ P = "pexels" =>
                    (g.headers = { <<"Authorization", client.api_key>> } /\ g.query = CallerPairs)
              /\ P = "unsplash" =>
                    (g.headers = { <<"Authorization", "Client-ID " \o client.api_key>> }
                     /\ g.query = CallerPairs)
              /\ P = "pixabay" => (<<"key", client.api_key>> \in g.query /\ g.headers = {})
              /\ "query" \in DOMAIN call.params.d =>
                    \E kv \in g.query : kv[2] = call.params.d["query"].s
    /\ \A s \in Slots :
          (sub[s].st = "done" /\ sub[s].resp.kind = "ok") =>
              sub[s].out = Return(PyJson(sub[s].resp.body))

\* C10: a Client of an unsupported provider has no strategies, and every
\* search or asearch on it for image, video or hybrid ends with ValueError and
\* with no GET made.
C10_UnsupportedProvider ==
    (client # NoClient /\ client.provider \notin Providers) =>
        /\ "image_searcher" \notin DOMAIN client
        /\ "video_searcher" \notin DOMAIN client
        /\ gets = <<>>
        /\ pc = "done" => ret = Raise("ValueError")

\* the Client as its constructor leaves it for this provider and key
AsConstructed == SearchClient([provider |-> client.provider, key |-> client.api_key])

\* the GET a sub-search of the current call makes on a Client as constructed
ExpectedGet(s) ==
    LET self == AsConstructed[SearcherAttr(s)]
    IN  Wire(IF call.mode = "sync" THEN Strategy_search(self, call.params)
             ELSE Strategy_asearch(self, call.params), s)

\* C11: no step of a search or asearch call changes the Client: its api key,
\* its two Strategies and their endpoints and keys stay as the constructor
\* left them, whatever calls came before and however they ended; so every GET
\* of a call is the one the freshly constructed Client makes for that call,
\* and every result is derived from the response alone.
C11_Stateless ==
    /\ [](client # NoClient =>
            /\ client = AsConstructed
            /\ \A i \in DOMAIN gets : gets[i] = ExpectedGet(gets[i].slot)
            /\ \A s \in Slots :
                  (sub[s].st = "done" /\ sub[s].lib # "none") =>
                      sub[s].out = SearchTry(sub[s].lib, sub[s].resp.kind, sub[s].resp.body))
    /\ [][client # NoClient => client' = client]_vars

\* a call that follows a call which raised has made its GET and returned a
\* parsed body
C11_Witness ==
    /\ Supported
    /\ earlier = "raise"
    /\ pc = "done"
    /\ call.content_type = "image"
    /\ Len(gets) = 1
    /\ ret.kind = "return"
    /\ ret.value # PyNone

\* the GET the other method (asearch for search, search for asearch) of the
\* same Strategy makes for the parameters of the current call
OtherModeGet(s) ==
    LET self == client[SearcherAttr(s)]
    IN  Wire(IF call.mode = "sync" THEN Strategy_asearch(self, call.params)
             ELSE Strategy_search(self, call.params), s)

\* C12: on a supported Client, the GET of a search or asearch call for image
\* or video has the endpoint, the query parameters and the headers of the GET
\* the other of the two methods makes for the same parameters, and the call
\* returns what the other method returns for the same response; for pixabay
\* the value of params["query"] is sent as q.
C12_SameRequest ==
    (Supported /\ call.content_type \in {"image", "video"}) =>
        /\ \A i \in DOMAIN gets :
              /\ gets[i].url = OtherModeGet(gets[i].slot).url
              /\ gets[i].query = OtherModeGet(gets[i].slot).query
              /\ gets[i].headers = OtherModeGet(gets[i].slot).headers
              /\ (client.provider = "pixabay" /\ "query" \in DOMAIN call.params.d) =>
                    <<"q", call.params.d["query"].s>> \in gets[i].query
        /\ \A s \in Slots :
              (sub[s].st = "done" /\ sub[s].resp.kind \in {"ok", "status", "transport", "timeout", "malformed"}) =>
                  sub[s].out = SearchTry(IF sub[s].lib = "requests" THEN "aiohttp" ELSE "requests",
                                         sub[s].resp.kind, sub[s].resp.body)

====
